---- MODULE Spec2Model ----
(***************************************************************************)
(* gitlab-artifacts-cleaner: the bounded-concurrency deletion pipeline.    *)
(*                                                                         *)
(* The repository holds two programs that share deleteArtifact:            *)
(*   - src/main.go          range mode   (job IDs startJob..endJob)        *)
(*   - src/unnamed/part_000 discovery mode (job IDs listed by the server)  *)
(* One run of either program is modelled: the main goroutine, the signal   *)
(* goroutine (cancel) and one deleteArtifact goroutine per dispatched job. *)
(* The GitLab server is the environment: every answer it can give is a     *)
(* nondeterministic choice.                                                *)
(*                                                                         *)
(* Specifications:                                                         *)
(*   Spec      one run, range or discovery mode, up to MaxJob jobs         *)
(*   SpecFair  Spec with the goroutines scheduled fairly (termination)     *)
(*   SpecRerun the program invoked again against the same server           *)
(*   SpecPages discovery over up to MaxPages full pages of jobs            *)
(*   SpecValidate  the validation of the flags, around every limit         *)
(***************************************************************************)
EXTENDS Integers, Sequences, FiniteSets, TLC

\* ---------------------------------------------------------------- bounds
MaxJob == 2
MaxConcurrency == 2
\* invocations of the program against the same server (SpecRerun)
MaxRuns == 2
\* full pages of jobs the project can have on the server (SpecPages)
MaxPages == 2

\* ------------------------------------------------------ program constants
\* for i := 0; i < 3; i++
MaxAttempts == 3
\* case http.StatusNoContent
StatusNoContent == 204
\* case http.StatusNotFound
StatusNotFound == 404
\* case http.StatusOK
StatusOK == 200
\* a status that is none of the above (the default branch of the switches)
StatusInternalServerError == 500
\* perPage := 100
PerPage == 100
\* concurrency < 1 || concurrency > 1000
MaxConcurrencyAllowed == 1000
\* totalJobs > 1000000
MaxRange == 1000000

JobIDs == 1..MaxJob

\* statuses the server answers the existence check and a page request with
ProjectStatuses == {StatusOK, StatusNotFound, StatusInternalServerError}
ListStatuses == {StatusOK, StatusInternalServerError}

\* statuses the server answers a DELETE with
DeleteStatuses == {StatusNoContent, StatusNotFound, StatusInternalServerError}

VARIABLES
  \* flags (fixed during a run)
  mode,            \* "range" (main.go) or "discovery" (part_000)
  server, token, projectID, startJob, endJob, concurrency, pageLimit,
  dryRun,
  logFileOK,       \* whether os.OpenFile(logFile) succeeds
  earlier,         \* summaries of the earlier invocations against this server
  \* the server (environment)
  serverJobs,      \* number of jobs the project has on the server (discovery)
  noArtifact,      \* jobs whose artifact is known to be gone (answered 204 or 404)
  \* main goroutine
  mainPC,          \* position of the Run callback
  ctxDone,         \* the context is cancelled
  launchedAtSignal, \* goroutines launched when cancel() was called (0 before)
  jobs,            \* discovery: allJobs of listJobs, then the list it returned
  page,            \* listJobs: page
  jobID,           \* dispatch loop variable (range: the ID, discovery: the index)
  totalJobs,
  wg,              \* sync.WaitGroup counter
  sem,             \* len(sem): tokens in the buffered channel
  successCounter, failureCounter, skippedCounter, processedCounter,
  summary,         \* the numbers the summary line reports
  exitCode,        \* -1 while running
  fatal,           \* the error main reported before os.Exit(1), or "none"
  mainRes,         \* result of the last request of the main goroutine
  \* deleteArtifact goroutines, by job ID
  pc,              \* position of the goroutine
  i,               \* loop variable of the retry loop
  resp,            \* resp.StatusCode (0: resp is nil)
  err,             \* "nil", "transport" or "canceled" (context canceled)
  reqErr,          \* http.NewRequest failed
  \* observation of the goroutines (attempts, attemptLog and sleeps are
  \* dropped with the locals when a goroutine leaves its function body)
  held,            \* goroutines that hold a concurrency token
  attempts,        \* DELETE requests put on the wire
  attemptLog,      \* result of every finished call of httpClient.Do
  sleeps,          \* seconds of every time.Sleep
  counted,         \* counters the goroutine incremented, in order
  answer,          \* status of the last answer to the DELETE of the job (0: none)
  \* side effects of the goroutines, by job ID
  logLines,        \* lines the goroutine wrote to the audit log
  shown            \* console lines (verbose) or progress-bar ticks of the goroutine

flags == <<mode, server, token, projectID, startJob, endJob, concurrency,
           pageLimit, dryRun, logFileOK, earlier>>
srv == <<serverJobs, noArtifact>>
counters == <<successCounter, failureCounter, skippedCounter, processedCounter>>
mainVars == <<mainPC, jobs, page, jobID, totalJobs, summary, exitCode, fatal, mainRes>>
signal == <<ctxDone, launchedAtSignal>>
local == <<i, resp, err, reqErr>>
hist == <<attempts, attemptLog, sleeps, answer>>
effects == <<logLines, shown>>
vars == <<flags, srv, mainVars, signal, wg, sem, counters, pc, local, held,
          hist, counted, effects>>

\* ------------------------------------------------------------ validation
\* mutant of validateInputsRange: a range of exactly MaxRange jobs is too large
validateInputsRangeOffByOne(s, t, p, sj, ej, c) ==
  IF s = "" THEN "server"
  ELSE IF t = "" THEN "token"
  ELSE IF p <= 0 THEN "projectID"
  ELSE IF sj <= 0 THEN "startJob"
  ELSE IF ej < sj THEN "endJob"
  ELSE IF c < 1 \/ c > MaxConcurrencyAllowed THEN "concurrency"
  ELSE IF ej - sj + 1 >= MaxRange THEN "range"
  ELSE "ok"

\* validateInputs of main.go (range mode): the first violated check, or "ok"
validateInputsRange(s, t, p, sj, ej, c) ==
  IF s = "" THEN "server"
  ELSE IF t = "" THEN "token"
  ELSE IF p <= 0 THEN "projectID"
  ELSE IF sj <= 0 THEN "startJob"
  ELSE IF ej < sj THEN "endJob"
  ELSE IF c < 1 \/ c > MaxConcurrencyAllowed THEN "concurrency"
  ELSE IF ej - sj + 1 > MaxRange THEN "range"
  ELSE "ok"

\* mutant of validateInputsDiscovery: the concurrency has no upper limit
validateInputsDiscoveryNoUpperLimit(s, t, p, c) ==
  IF s = "" THEN "server"
  ELSE IF t = "" THEN "token"
  ELSE IF p <= 0 THEN "projectID"
  ELSE IF c < 1 THEN "concurrency"
  ELSE "ok"

\* validateInputs of part_000 (discovery mode)
validateInputsDiscovery(s, t, p, c) ==
  IF s = "" THEN "server"
  ELSE IF t = "" THEN "token"
  ELSE IF p <= 0 THEN "projectID"
  ELSE IF c < 1 \/ c > MaxConcurrencyAllowed THEN "concurrency"
  ELSE "ok"

validateInputs ==
  IF mode = "range"
  THEN validateInputsRange(server, token, projectID, startJob, endJob, concurrency)
  ELSE validateInputsDiscovery(server, token, projectID, concurrency)

\* http.NewRequest fails when the URL does not parse; every URL of the program
\* starts with "https://<server>/api/v4/projects/<id>", so it fails for all of
\* them or for none
BadURL == server = "bad host"

Min(a, b) == IF a < b THEN a ELSE b

\* ------------------------------------------------------------------ Init
\* a fresh process against a server that has deleted nothing yet: nothing
\* has run, the counters are zero
InitProcess ==
  /\ earlier = <<>>
  /\ noArtifact = {}
  /\ mainPC = "validate"
  /\ ctxDone = FALSE
  /\ launchedAtSignal = 0
  /\ jobs = <<>>
  /\ page = 1
  /\ jobID = 0
  /\ totalJobs = 0
  /\ wg = 0
  /\ sem = 0
  /\ successCounter = 0
  /\ failureCounter = 0
  /\ skippedCounter = 0
  /\ processedCounter = 0
  /\ summary = <<>>
  /\ exitCode = -1
  /\ fatal = "none"
  /\ mainRes = [err |-> "nil", status |-> 0]
  /\ pc = [j \in JobIDs |-> "idle"]
  /\ i = [j \in JobIDs |-> 0]
  /\ resp = [j \in JobIDs |-> 0]
  /\ err = [j \in JobIDs |-> "nil"]
  /\ reqErr = [j \in JobIDs |-> FALSE]
  /\ held = {}
  /\ attempts = [j \in JobIDs |-> 0]
  /\ attemptLog = [j \in JobIDs |-> <<>>]
  /\ sleeps = [j \in JobIDs |-> <<>>]
  /\ counted = [j \in JobIDs |-> <<>>]
  /\ answer = [j \in JobIDs |-> 0]
  /\ logLines = [j \in JobIDs |-> 0]
  /\ shown = [j \in JobIDs |-> 0]

\* the state when the Run callback starts: flags parsed, nothing running
Init ==
  /\ mode \in {"range", "discovery"}
  /\ server \in {"", "gitlab.example.com", "bad host"}
  /\ token \in {"", "glpat"}
  /\ projectID \in {0, 1}
  /\ concurrency \in (0..MaxConcurrency) \cup {MaxConcurrencyAllowed + 1}
  /\ dryRun \in BOOLEAN
  /\ logFileOK \in BOOLEAN
  /\ IF mode = "range"
     THEN /\ startJob \in 0..MaxJob
          /\ endJob \in 0..MaxJob
          /\ pageLimit = 0
          /\ serverJobs = 0
     ELSE /\ startJob = 0
          /\ endJob = 0
          /\ pageLimit = 0
          /\ serverJobs \in 0..MaxJob
  /\ InitProcess

workerVars == <<signal, wg, sem, counters, pc, local, held, hist, counted, noArtifact,
                effects>>

\* os.Exit(code), or the Run callback returning (code 0)
Exit(code) ==
  /\ mainPC' = "exit"
  /\ exitCode' = code

\* mutant of Fatal: the callback returns instead of calling os.Exit(1)
FatalReturns(msg) ==
  /\ Exit(0)
  /\ fatal' = msg

\* the error is logged and printed, then os.Exit(1)
Fatal(msg) ==
  /\ Exit(1)
  /\ fatal' = msg

\* results of a call of httpClient.Do: an error and no response, or a response
DoErr(e) == [err |-> e, status |-> 0]
DoOK(s) == [err |-> "nil", status |-> s]

\* results of the request of projectExists, and of a page request of listJobs
\* ("decode": the body of a 200 answer is not a JSON list of jobs)
ProjectResults ==
  {DoErr("transport"), DoErr("canceled")} \cup {DoOK(s) : s \in ProjectStatuses}
ListResults ==
  {DoErr("transport"), DoErr("canceled"), DoErr("decode")} \cup {DoOK(s) : s \in ListStatuses}

\* ------------------------------------------------------- main goroutine
\* mutant of Validate: the error is reported but the run goes on
ValidateContinues ==
  /\ mainPC = "validate"
  /\ mainPC' = "openLog"
  /\ fatal' = (IF validateInputs # "ok" THEN "validation" ELSE fatal)
  /\ UNCHANGED <<flags, serverJobs, jobs, page, jobID, totalJobs, summary, mainRes,
                 exitCode, workerVars>>

\* the input validation at the top of Run
Validate ==
  /\ mainPC = "validate"
  /\ IF validateInputs # "ok"
     THEN Fatal("validation")
     ELSE mainPC' = "openLog" /\ UNCHANGED <<exitCode, fatal>>
  /\ UNCHANGED <<flags, serverJobs, jobs, page, jobID, totalJobs, summary, mainRes,
                 workerVars>>

\* os.OpenFile of the log file; then the context and the signal handler are set up
OpenLogFile ==
  /\ mainPC = "openLog"
  /\ IF ~logFileOK
     THEN Fatal("logFile")
     ELSE mainPC' = "projectExists" /\ UNCHANGED <<exitCode, fatal>>
  /\ UNCHANGED <<flags, serverJobs, jobs, page, jobID, totalJobs, summary, mainRes,
                 workerVars>>

\* the signal goroutine: <-sigChan; cancel()
Cancel ==
  /\ mainPC \notin {"validate", "openLog", "exit"}
  /\ ~ctxDone
  /\ ctxDone' = TRUE
  /\ launchedAtSignal' = Cardinality({j \in JobIDs : pc[j] # "idle"})
  /\ UNCHANGED <<flags, srv, mainVars, wg, sem, counters, effects, pc, local, held, hist, counted>>

\* mutant of ProjectExistsDo: the request does not carry the context
ProjectExistsDoIgnoresCtx ==
  /\ mainPC = "projectExists"
  /\ IF BadURL
     THEN /\ Fatal("checkingProject")
          /\ mainRes' = DoErr("url")
     ELSE mainPC' = "projectExistsWait" /\ UNCHANGED <<exitCode, fatal, mainRes>>
  /\ UNCHANGED <<flags, serverJobs, jobs, page, jobID, totalJobs, summary, workerVars>>

\* projectExists up to httpClient.Do: NewRequest fails on a bad URL, and Do
\* returns the context's error without sending when ctx is already cancelled
ProjectExistsDo ==
  /\ mainPC = "projectExists"
  /\ IF BadURL \/ ctxDone
     THEN /\ Fatal("checkingProject")
          /\ mainRes' = DoErr(IF BadURL THEN "url" ELSE "canceled")
     ELSE mainPC' = "projectExistsWait" /\ UNCHANGED <<exitCode, fatal, mainRes>>
  /\ UNCHANGED <<flags, serverJobs, jobs, page, jobID, totalJobs, summary, workerVars>>

\* mutant of projectExistsResult: every response means the project exists
projectExistsResultAnyResponse(r) ==
  IF r.err # "nil" THEN "failed" ELSE "exists"

\* the result of projectExists: "exists", "notExists" or "failed"
projectExistsResult(r) ==
  IF r.err # "nil" THEN "failed"
  ELSE IF r.status = StatusOK THEN "exists"
  ELSE IF r.status = StatusNotFound THEN "notExists"
  ELSE "failed"

\* mutant of ProjectExistsReturn: the request is repeated after a transport
\* error
ProjectExistsReturnRetries(r) ==
  /\ mainPC = "projectExistsWait"
  /\ r.err = "canceled" => ctxDone
  /\ mainRes' = r
  /\ IF r.err = "transport"
     THEN mainPC' = "projectExists" /\ UNCHANGED <<exitCode, fatal, jobID, totalJobs>>
     ELSE IF projectExistsResult(r) # "exists"
     THEN /\ Fatal(IF projectExistsResult(r) = "failed"
                   THEN "checkingProject" ELSE "projectNotExists")
          /\ UNCHANGED <<jobID, totalJobs>>
     ELSE /\ UNCHANGED <<exitCode, fatal>>
          /\ IF mode = "discovery"
             THEN mainPC' = "listJobs" /\ UNCHANGED <<jobID, totalJobs>>
             ELSE /\ mainPC' = "dispatch"
                  /\ totalJobs' = endJob - startJob + 1
                  /\ jobID' = startJob
  /\ UNCHANGED <<flags, serverJobs, jobs, page, summary, workerVars>>

\* httpClient.Do returns r in projectExists (the context's error only when the
\* context is cancelled), and main acts on the result
ProjectExistsReturn(r) ==
  /\ mainPC = "projectExistsWait"
  /\ r.err = "canceled" => ctxDone
  /\ mainRes' = r
  /\ IF projectExistsResult(r) # "exists"
     THEN /\ Fatal(IF projectExistsResult(r) = "failed"
                   THEN "checkingProject" ELSE "projectNotExists")
          /\ UNCHANGED <<jobID, totalJobs>>
     ELSE /\ UNCHANGED <<exitCode, fatal>>
          /\ IF mode = "discovery"
             THEN mainPC' = "listJobs" /\ UNCHANGED <<jobID, totalJobs>>
             ELSE /\ mainPC' = "dispatch"
                  /\ totalJobs' = endJob - startJob + 1
                  /\ jobID' = startJob
  /\ UNCHANGED <<flags, serverJobs, jobs, page, summary, workerVars>>

\* mutant of ListJobsDo: on cancellation listJobs returns no jobs
ListJobsDoReturnsNil ==
  /\ mainPC = "listJobs"
  /\ IF ctxDone
     THEN Fatal("fetchingJobs") /\ mainRes' = DoErr("canceled") /\ jobs' = <<>>
     ELSE mainPC' = "listJobsWait" /\ UNCHANGED <<exitCode, fatal, mainRes, jobs>>
  /\ UNCHANGED <<flags, serverJobs, page, jobID, totalJobs, summary, workerVars>>

\* listJobs, head of the page loop up to httpClient.Do: a cancelled context
\* makes listJobs return (allJobs, ctx.Err()), which main answers with
\* os.Exit(1)
ListJobsDo ==
  /\ mainPC = "listJobs"
  /\ IF ctxDone
     THEN Fatal("fetchingJobs") /\ mainRes' = DoErr("canceled")
     ELSE mainPC' = "listJobsWait" /\ UNCHANGED <<exitCode, fatal, mainRes>>
  /\ UNCHANGED <<flags, serverJobs, jobs, page, jobID, totalJobs, summary, workerVars>>

\* number of job records on page p
pageLen(p) ==
  LET left == serverJobs - PerPage * (p - 1)
  IN  IF left <= 0 THEN 0 ELSE Min(PerPage, left)

\* the IDs of the job records on page p
pageJobs(p) == [k \in 1..pageLen(p) |-> PerPage * (p - 1) + k]

\* mutant of afterListJobs: an empty list is an error
afterListJobsEmptyIsError(js) ==
  IF Len(js) = 0
  THEN Exit(1) /\ fatal' = "noJobs" /\ UNCHANGED <<jobID, totalJobs>>
  ELSE /\ mainPC' = "dispatch"
       /\ totalJobs' = Len(js)
       /\ jobID' = 1
       /\ UNCHANGED <<exitCode, fatal>>

\* main after listJobs returned the list js without error
afterListJobs(js) ==
  IF Len(js) = 0
  THEN Exit(0) /\ UNCHANGED <<jobID, totalJobs, fatal>>
  ELSE /\ mainPC' = "dispatch"
       /\ totalJobs' = Len(js)
       /\ jobID' = 1
       /\ UNCHANGED <<exitCode, fatal>>

\* mutant of ListJobsReturn: the page limit is tested one page too late
ListJobsReturnLimitOffByOne(r) ==
  /\ mainPC = "listJobsWait"
  /\ r.err = "canceled" => ctxDone
  /\ mainRes' = r
  /\ IF r.err # "nil" \/ r.status # StatusOK
     THEN Fatal("fetchingJobs") /\ jobs' = <<>> /\ UNCHANGED <<page, jobID, totalJobs>>
     ELSE LET got == pageJobs(page)
              all == jobs \o got
          IN  /\ jobs' = (IF Len(got) = 0 THEN jobs ELSE all)
              /\ IF Len(got) = 0 \/ Len(got) < PerPage
                 THEN afterListJobs(jobs') /\ UNCHANGED page
                 ELSE /\ page' = page + 1
                      /\ IF pageLimit > 0 /\ page' > pageLimit + 1
                         THEN afterListJobs(jobs')
                         ELSE /\ mainPC' = "listJobs"
                              /\ UNCHANGED <<jobID, totalJobs, exitCode, fatal>>
  /\ UNCHANGED <<flags, serverJobs, summary, workerVars>>

\* mutant of ListJobsReturn: a failed page request ends the discovery with the
\* jobs gathered so far instead of an error
ListJobsReturnPartial(r) ==
  /\ mainPC = "listJobsWait"
  /\ r.err = "canceled" => ctxDone
  /\ mainRes' = r
  /\ IF r.err # "nil" \/ r.status # StatusOK
     THEN afterListJobs(jobs) /\ UNCHANGED <<jobs, page>>
     ELSE LET got == pageJobs(page)
              all == jobs \o got
          IN  /\ jobs' = (IF Len(got) = 0 THEN jobs ELSE all)
              /\ IF Len(got) = 0 \/ Len(got) < PerPage
                 THEN afterListJobs(jobs') /\ UNCHANGED page
                 ELSE /\ page' = page + 1
                      /\ IF pageLimit > 0 /\ page' > pageLimit
                         THEN afterListJobs(jobs')
                         ELSE /\ mainPC' = "listJobs"
                              /\ UNCHANGED <<jobID, totalJobs, exitCode, fatal>>
  /\ UNCHANGED <<flags, serverJobs, summary, workerVars>>

\* a page request of listJobs returns r: a transport error, the context's
\* error (only when the context is cancelled), a status other than 200, a body
\* that does not decode ("decode"), each of which makes listJobs return
\* (nil, err), or a page of job records
ListJobsReturn(r) ==
  /\ mainPC = "listJobsWait"
  /\ r.err = "canceled" => ctxDone
  /\ mainRes' = r
  /\ IF r.err # "nil" \/ r.status # StatusOK
     THEN Fatal("fetchingJobs") /\ jobs' = <<>> /\ UNCHANGED <<page, jobID, totalJobs>>
     ELSE LET got == pageJobs(page)
              all == jobs \o got
          IN  /\ jobs' = (IF Len(got) = 0 THEN jobs ELSE all)
              /\ IF Len(got) = 0 \/ Len(got) < PerPage
                 THEN afterListJobs(jobs') /\ UNCHANGED page
                 ELSE /\ page' = page + 1
                      /\ IF pageLimit > 0 /\ page' > pageLimit
                         THEN afterListJobs(jobs')
                         ELSE /\ mainPC' = "listJobs"
                              /\ UNCHANGED <<jobID, totalJobs, exitCode, fatal>>
  /\ UNCHANGED <<flags, serverJobs, summary, workerVars>>

\* the ID the dispatch loop is at
currentJob == IF mode = "range" THEN jobID ELSE jobs[jobID]

\* mutant of loopEnd: the upper end of the range is exclusive
loopEndExclusive == IF mode = "range" THEN jobID >= endJob ELSE jobID > Len(jobs)

\* the dispatch loop is past its last job
loopEnd == IF mode = "range" THEN jobID > endJob ELSE jobID > Len(jobs)

\* mutant of DispatchTest: the loop also stops once a job has failed
DispatchTestStopOnFailure ==
  /\ mainPC = "dispatch"
  /\ mainPC' = (IF loopEnd \/ ctxDone \/ failureCounter > 0 THEN "wait" ELSE "launch")
  /\ UNCHANGED <<flags, serverJobs, jobs, page, jobID, totalJobs, summary, exitCode, fatal,
                 mainRes, workerVars>>

\* mutant of DispatchTest: the loop does not look at the context
DispatchTestNoCtx ==
  /\ mainPC = "dispatch"
  /\ mainPC' = (IF loopEnd THEN "wait" ELSE "launch")
  /\ UNCHANGED <<flags, serverJobs, jobs, page, jobID, totalJobs, summary, exitCode, fatal,
                 mainRes, workerVars>>

\* head of the dispatch loop: the loop condition and the ctx.Err() test
DispatchTest ==
  /\ mainPC = "dispatch"
  /\ mainPC' = (IF loopEnd \/ ctxDone THEN "wait" ELSE "launch")
  /\ UNCHANGED <<flags, serverJobs, jobs, page, jobID, totalJobs, summary, exitCode, fatal,
                 mainRes, workerVars>>

\* mutant of Launch: the goroutine is started without wg.Add(1)
LaunchWithoutAdd ==
  /\ mainPC = "launch"
  /\ pc' = [pc EXCEPT ![currentJob] = "select"]
  /\ jobID' = jobID + 1
  /\ mainPC' = "dispatch"
  /\ UNCHANGED <<flags, srv, jobs, page, totalJobs, summary, exitCode, fatal, mainRes,
                 signal, wg, sem,
                 counters, effects, local, held, hist, counted>>

\* wg.Add(1); go deleteArtifact(...)
Launch ==
  /\ mainPC = "launch"
  /\ wg' = wg + 1
  /\ pc' = [pc EXCEPT ![currentJob] = "select"]
  /\ jobID' = jobID + 1
  /\ mainPC' = "dispatch"
  /\ UNCHANGED <<flags, srv, jobs, page, totalJobs, summary, exitCode, fatal, mainRes,
                 signal, sem,
                 counters, effects, local, held, hist, counted>>

\* mutant of Wait: main does not wait for the goroutines
WaitNoBarrier ==
  /\ mainPC = "wait"
  /\ mainPC' = "summary"
  /\ UNCHANGED <<flags, serverJobs, jobs, page, jobID, totalJobs, summary, exitCode, fatal,
                 mainRes, workerVars>>

\* wg.Wait() returns
Wait ==
  /\ mainPC = "wait"
  /\ wg = 0
  /\ mainPC' = "summary"
  /\ UNCHANGED <<flags, serverJobs, jobs, page, jobID, totalJobs, summary, exitCode, fatal,
                 mainRes, workerVars>>

\* mutant of Summary: the Total field is the processed counter
SummaryReportsProcessed ==
  /\ mainPC = "summary"
  /\ summary' = <<successCounter, failureCounter, skippedCounter, processedCounter>>
  /\ Exit(IF failureCounter > 0 THEN 1 ELSE 0)
  /\ UNCHANGED <<flags, serverJobs, jobs, page, jobID, totalJobs, fatal, mainRes,
                 workerVars>>

\* mutant of Summary: a cancelled run is reported as a failed run
SummaryCancelIsError ==
  /\ mainPC = "summary"
  /\ summary' = <<successCounter, failureCounter, skippedCounter, totalJobs>>
  /\ Exit(IF failureCounter > 0 \/ ctxDone THEN 1 ELSE 0)
  /\ UNCHANGED <<flags, serverJobs, jobs, page, jobID, totalJobs, fatal, mainRes,
                 workerVars>>

\* the summary line, then os.Exit(1) if failureCounter > 0
Summary ==
  /\ mainPC = "summary"
  /\ summary' = <<successCounter, failureCounter, skippedCounter, totalJobs>>
  /\ Exit(IF failureCounter > 0 THEN 1 ELSE 0)
  /\ UNCHANGED <<flags, serverJobs, jobs, page, jobID, totalJobs, fatal, mainRes,
                 workerVars>>

\* ------------------------------------------------- deleteArtifact(jobID)
\* the function body is left (a return, or its end): the locals are dead, only
\* the deferred calls remain
leaveBody(j) ==
  /\ i' = [i EXCEPT ![j] = 0]
  /\ resp' = [resp EXCEPT ![j] = 0]
  /\ err' = [err EXCEPT ![j] = "nil"]
  /\ reqErr' = [reqErr EXCEPT ![j] = FALSE]
  /\ attempts' = [attempts EXCEPT ![j] = 0]
  /\ attemptLog' = [attemptLog EXCEPT ![j] = <<>>]
  /\ sleeps' = [sleeps EXCEPT ![j] = <<>>]

\* mutant of outcome: only err is looked at, every response is a success
outcomeAnyResponse(rq, e, s) ==
  IF dryRun THEN "skipped"
  ELSE IF rq THEN "failures"
  ELSE IF e # "nil" THEN "failures"
  ELSE "successes"

\* mutant of outcome: the 404 case is missing, 404 falls to the default branch
outcomeNoNotFound(rq, e, s) ==
  IF dryRun THEN "skipped"
  ELSE IF rq THEN "failures"
  ELSE IF e # "nil" THEN "failures"
  ELSE IF s = StatusNoContent THEN "successes"
  ELSE "failures"

\* the counter a goroutine increments for its outcome, given reqErr, err and
\* resp.StatusCode: the dry-run branch, the request-creation error, err != nil
\* after the loop, then the switch
outcome(rq, e, s) ==
  IF dryRun THEN "skipped"
  ELSE IF rq THEN "failures"
  ELSE IF e # "nil" THEN "failures"
  ELSE IF s = StatusNoContent THEN "successes"
  ELSE IF s = StatusNotFound THEN "skipped"
  ELSE "failures"

\* mutant of report: the message goes to the log only
reportLogOnly(j) ==
  /\ logLines' = [logLines EXCEPT ![j] = @ + 1]
  /\ UNCHANGED shown

\* the message of an outcome: fmt.Println when verbose, else bar.Add(1) (the
\* bar exists exactly when not verbose), then logger.Println
report(j) ==
  /\ shown' = [shown EXCEPT ![j] = @ + 1]
  /\ logLines' = [logLines EXCEPT ![j] = @ + 1]

\* mutant of record: the increment is not atomic, and is lost when another
\* goroutine is between its two increments
recordLostUpdate(j, c) ==
  LET n == IF \E k \in JobIDs \ {j} : pc[k] = "processed" THEN 0 ELSE 1
  IN  /\ successCounter' = successCounter + (IF c = "successes" THEN n ELSE 0)
      /\ failureCounter' = failureCounter + (IF c = "failures" THEN n ELSE 0)
      /\ skippedCounter' = skippedCounter + (IF c = "skipped" THEN n ELSE 0)
      /\ counted' = [counted EXCEPT ![j] = Append(@, c)]
      /\ pc' = [pc EXCEPT ![j] = "processed"]
      /\ report(j)

\* mutant of record: a failure is also counted as skipped
recordFailureTwice(j, c) ==
  /\ successCounter' = successCounter + (IF c = "successes" THEN 1 ELSE 0)
  /\ failureCounter' = failureCounter + (IF c = "failures" THEN 1 ELSE 0)
  /\ skippedCounter' = skippedCounter + (IF c \in {"skipped", "failures"} THEN 1 ELSE 0)
  /\ counted' = [counted EXCEPT ![j] =
                   IF c = "failures" THEN @ \o <<c, "skipped">> ELSE Append(@, c)]
  /\ pc' = [pc EXCEPT ![j] = "processed"]
  /\ report(j)

\* the outcome is known: the console line or progress-bar tick, the log line
\* and the atomic increment of counter c; processedCounter comes next
record(j, c) ==
  /\ report(j)
  /\ successCounter' = successCounter + (IF c = "successes" THEN 1 ELSE 0)
  /\ failureCounter' = failureCounter + (IF c = "failures" THEN 1 ELSE 0)
  /\ skippedCounter' = skippedCounter + (IF c = "skipped" THEN 1 ELSE 0)
  /\ counted' = [counted EXCEPT ![j] = Append(@, c)]
  /\ pc' = [pc EXCEPT ![j] = "processed"]

outcomeCounters == <<successCounter, failureCounter, skippedCounter>>

\* mutant of Acquire: the send never blocks (a channel without the capacity)
AcquireUnbounded(j) ==
  /\ pc[j] = "select"
  /\ sem' = sem + 1
  /\ held' = held \cup {j}
  /\ pc' = [pc EXCEPT ![j] = "ctxErr"]
  /\ UNCHANGED <<flags, srv, mainVars, signal, wg, counters, effects, local, hist, counted>>

\* select: case sem <- struct{}{} (a slot of the buffered channel is free)
Acquire(j) ==
  /\ pc[j] = "select"
  /\ sem < concurrency
  /\ sem' = sem + 1
  /\ held' = held \cup {j}
  /\ pc' = [pc EXCEPT ![j] = "ctxErr"]
  /\ UNCHANGED <<flags, srv, mainVars, signal, wg, counters, effects, local, hist, counted>>

\* mutant of Abandon: the release is deferred before the select, so it also
\* runs for a goroutine that acquired nothing
AbandonReleases(j) ==
  /\ pc[j] = "select"
  /\ ctxDone
  /\ sem' = sem - 1
  /\ pc' = [pc EXCEPT ![j] = "wgDone"]
  /\ UNCHANGED <<flags, srv, mainVars, signal, wg, counters, effects, local, held, hist, counted>>

\* select: case <-ctx.Done(): return
Abandon(j) ==
  /\ pc[j] = "select"
  /\ ctxDone
  /\ pc' = [pc EXCEPT ![j] = "wgDone"]
  /\ UNCHANGED <<flags, srv, mainVars, signal, wg, sem, counters, effects, local, held, hist, counted>>

\* mutant of CheckCtx: the dry-run branch comes before the test of the context
CheckCtxDryRunFirst(j) ==
  /\ pc[j] = "ctxErr"
  /\ IF dryRun
     THEN record(j, outcome(FALSE, "nil", 0))
     ELSE IF ctxDone
          THEN pc' = [pc EXCEPT ![j] = "release"]
               /\ UNCHANGED <<outcomeCounters, effects, counted>>
          ELSE pc' = [pc EXCEPT ![j] = "loop"]
               /\ UNCHANGED <<outcomeCounters, effects, counted>>
  /\ UNCHANGED <<flags, srv, mainVars, signal, wg, sem, processedCounter, local, held, hist>>

\* mutant of CheckCtx: the context is not tested after the acquisition
CheckCtxNoCtxTest(j) ==
  /\ pc[j] = "ctxErr"
  /\ IF dryRun
     THEN record(j, outcome(FALSE, "nil", 0))
     ELSE pc' = [pc EXCEPT ![j] = "loop"] /\ UNCHANGED <<outcomeCounters, effects, counted>>
  /\ UNCHANGED <<flags, srv, mainVars, signal, wg, sem, processedCounter, local, held, hist>>

\* mutant of CheckCtx: the dry-run test is missing
CheckCtxNoDryRun(j) ==
  /\ pc[j] = "ctxErr"
  /\ pc' = [pc EXCEPT ![j] = IF ctxDone THEN "release" ELSE "loop"]
  /\ UNCHANGED <<flags, srv, mainVars, signal, wg, sem, counters, effects, local, held, hist, counted>>

\* if ctx.Err() != nil { return }, then the dry-run branch up to the increment
\* of skippedCounter
CheckCtx(j) ==
  /\ pc[j] = "ctxErr"
  /\ IF ctxDone
     THEN pc' = [pc EXCEPT ![j] = "release"] /\ UNCHANGED <<outcomeCounters, effects, counted>>
     ELSE IF dryRun
          THEN record(j, outcome(FALSE, "nil", 0))
          ELSE pc' = [pc EXCEPT ![j] = "loop"] /\ UNCHANGED <<outcomeCounters, effects, counted>>
  /\ UNCHANGED <<flags, srv, mainVars, signal, wg, sem, processedCounter, local, held, hist>>

\* head of the retry loop: the ctx.Err() test and http.NewRequest, whose
\* failure is counted at once
LoopHead(j) ==
  /\ pc[j] = "loop"
  /\ IF ctxDone
     THEN /\ pc' = [pc EXCEPT ![j] = "release"]
          /\ leaveBody(j)
          /\ UNCHANGED <<outcomeCounters, effects, counted>>
     ELSE /\ IF BadURL
             THEN /\ reqErr' = [reqErr EXCEPT ![j] = TRUE]
                  /\ record(j, outcome(TRUE, err[j], resp[j]))
             ELSE /\ pc' = [pc EXCEPT ![j] = "do"]
                  /\ UNCHANGED <<reqErr, outcomeCounters, effects, counted>>
          /\ UNCHANGED <<i, resp, err, hist>>
  /\ UNCHANGED <<flags, srv, mainVars, signal, wg, sem, processedCounter, held, answer>>

\* mutant of backoff: the sleep is not skipped after the last attempt
backoffAlways(n) == <<(n + 1) * 2>>

\* seconds slept after failed attempt number n (0-based): none after the last
backoff(n) == IF n < MaxAttempts - 1 THEN <<(n + 1) * 2>> ELSE <<>>

\* mutant of DoError: the loop has no bound
DoErrorNoLimit(j, e) ==
  /\ err' = [err EXCEPT ![j] = e]
  /\ resp' = [resp EXCEPT ![j] = 0]
  /\ attemptLog' = [attemptLog EXCEPT ![j] = Append(@, DoErr(e))]
  /\ sleeps' = [sleeps EXCEPT ![j] = @ \o backoff(i[j])]
  /\ i' = [i EXCEPT ![j] = @ + 1]
  /\ pc' = [pc EXCEPT ![j] = "loop"]
  /\ UNCHANGED <<outcomeCounters, effects, counted>>

\* mutant of DoError: after the last attempt the function returns without
\* counting the failure
DoErrorUncounted(j, e) ==
  /\ err' = [err EXCEPT ![j] = e]
  /\ resp' = [resp EXCEPT ![j] = 0]
  /\ attemptLog' = [attemptLog EXCEPT ![j] = Append(@, DoErr(e))]
  /\ sleeps' = [sleeps EXCEPT ![j] = @ \o backoff(i[j])]
  /\ i' = [i EXCEPT ![j] = @ + 1]
  /\ pc' = [pc EXCEPT ![j] = IF i[j] + 1 < MaxAttempts THEN "loop" ELSE "release"]
  /\ UNCHANGED <<outcomeCounters, effects, counted>>

\* httpClient.Do returned the error e in iteration i[j]: sleep unless it was
\* the last iteration, i++; when i reaches 3 the loop ends with err != nil
\* and the failure is counted
DoError(j, e) ==
  /\ err' = [err EXCEPT ![j] = e]
  /\ resp' = [resp EXCEPT ![j] = 0]
  /\ attemptLog' = [attemptLog EXCEPT ![j] = Append(@, DoErr(e))]
  /\ sleeps' = [sleeps EXCEPT ![j] = @ \o backoff(i[j])]
  /\ i' = [i EXCEPT ![j] = @ + 1]
  /\ IF i[j] + 1 < MaxAttempts
     THEN pc' = [pc EXCEPT ![j] = "loop"] /\ UNCHANGED <<outcomeCounters, effects, counted>>
     ELSE record(j, outcome(reqErr[j], e, 0))

\* mutant of Do: the request does not carry the context
DoIgnoresCtx(j) ==
  /\ pc[j] = "do"
  /\ pc' = [pc EXCEPT ![j] = "inflight"]
  /\ attempts' = [attempts EXCEPT ![j] = @ + 1]
  /\ UNCHANGED <<flags, srv, mainVars, signal, wg, sem, counters, effects, local, held, answer, attemptLog,
                 sleeps, counted>>

\* httpClient.Do is called: with ctx already cancelled it returns the
\* context's error and nothing is sent, otherwise the DELETE goes out
Do(j) ==
  /\ pc[j] = "do"
  /\ IF ctxDone
     THEN DoError(j, "canceled") /\ UNCHANGED attempts
     ELSE /\ pc' = [pc EXCEPT ![j] = "inflight"]
          /\ attempts' = [attempts EXCEPT ![j] = @ + 1]
          /\ UNCHANGED <<i, resp, err, attemptLog, sleeps, outcomeCounters, effects, counted>>
  /\ UNCHANGED <<flags, srv, mainVars, signal, wg, sem, processedCounter, reqErr, held, answer>>

\* the DELETE of job j fails in transport (network error, client timeout)
DoTransportError(j) ==
  /\ pc[j] = "inflight"
  /\ DoError(j, "transport")
  /\ UNCHANGED <<flags, srv, mainVars, signal, wg, sem, processedCounter, reqErr, held, answer,
                 attempts>>

\* mutant of DoCanceled: the function returns as soon as the request is aborted
DoCanceledReturns(j) ==
  /\ pc[j] = "inflight"
  /\ ctxDone
  /\ attemptLog' = [attemptLog EXCEPT ![j] = Append(@, DoErr("canceled"))]
  /\ pc' = [pc EXCEPT ![j] = "release"]
  /\ UNCHANGED <<flags, srv, mainVars, signal, wg, sem, counters, effects, local, held, answer, attempts,
                 sleeps, counted>>

\* the DELETE of job j is aborted because its context was cancelled
DoCanceled(j) ==
  /\ pc[j] = "inflight"
  /\ ctxDone
  /\ DoError(j, "canceled")
  /\ UNCHANGED <<flags, srv, mainVars, signal, wg, sem, processedCounter, reqErr, held, answer,
                 attempts>>

\* statuses the server can answer the DELETE of job j with: 204 only while
\* the artifact may still be there, after which it is gone
serverStatuses(j) ==
  IF j \in noArtifact
  THEN {StatusNotFound, StatusInternalServerError}
  ELSE DeleteStatuses

\* mutant of DoResponse: the switch has no default branch
DoResponseNoDefault(j, s) ==
  /\ pc[j] = "inflight"
  /\ s \in serverStatuses(j)
  /\ noArtifact' = (IF s \in {StatusNoContent, StatusNotFound}
                    THEN noArtifact \cup {j} ELSE noArtifact)
  /\ err' = [err EXCEPT ![j] = "nil"]
  /\ resp' = [resp EXCEPT ![j] = s]
  /\ attemptLog' = [attemptLog EXCEPT ![j] = Append(@, DoOK(s))]
  /\ answer' = [answer EXCEPT ![j] = s]
  /\ IF s \in {StatusNoContent, StatusNotFound}
     THEN record(j, outcome(reqErr[j], "nil", s))
     ELSE /\ pc' = [pc EXCEPT ![j] = "release"]
          /\ UNCHANGED <<outcomeCounters, effects, counted>>
  /\ UNCHANGED <<flags, serverJobs, mainVars, signal, wg, sem, processedCounter, i, reqErr,
                 held, attempts, sleeps>>

\* the DELETE of job j is answered with status s: err == nil, break, and the
\* switch on resp.StatusCode up to the increment of the outcome counter
DoResponse(j, s) ==
  /\ pc[j] = "inflight"
  /\ s \in serverStatuses(j)
  /\ noArtifact' = (IF s \in {StatusNoContent, StatusNotFound}
                    THEN noArtifact \cup {j} ELSE noArtifact)
  /\ err' = [err EXCEPT ![j] = "nil"]
  /\ resp' = [resp EXCEPT ![j] = s]
  /\ attemptLog' = [attemptLog EXCEPT ![j] = Append(@, DoOK(s))]
  /\ answer' = [answer EXCEPT ![j] = s]
  /\ record(j, outcome(reqErr[j], "nil", s))
  /\ UNCHANGED <<flags, serverJobs, mainVars, signal, wg, sem, processedCounter, i, reqErr,
                 held, attempts, sleeps>>

\* mutant of Processed: processedCounter is incremented by two
ProcessedByTwo(j) ==
  /\ pc[j] = "processed"
  /\ processedCounter' = processedCounter + 2
  /\ counted' = [counted EXCEPT ![j] = Append(@, "processed")]
  /\ pc' = [pc EXCEPT ![j] = "release"]
  /\ leaveBody(j)
  /\ UNCHANGED <<flags, srv, mainVars, signal, wg, sem, outcomeCounters, effects, held, answer>>

\* atomic.AddInt64(processedCounter, 1), after which the function body ends
Processed(j) ==
  /\ pc[j] = "processed"
  /\ processedCounter' = processedCounter + 1
  /\ counted' = [counted EXCEPT ![j] = Append(@, "processed")]
  /\ pc' = [pc EXCEPT ![j] = "release"]
  /\ leaveBody(j)
  /\ UNCHANGED <<flags, srv, mainVars, signal, wg, sem, outcomeCounters, effects, held, answer>>

\* mutant of Release: the token is not given back
ReleaseKeepsToken(j) ==
  /\ pc[j] = "release"
  /\ pc' = [pc EXCEPT ![j] = "wgDone"]
  /\ UNCHANGED <<flags, srv, mainVars, signal, wg, sem, counters, effects, local, held, hist, counted>>

\* deferred: <-sem
Release(j) ==
  /\ pc[j] = "release"
  /\ sem' = sem - 1
  /\ held' = held \ {j}
  /\ pc' = [pc EXCEPT ![j] = "wgDone"]
  /\ UNCHANGED <<flags, srv, mainVars, signal, wg, counters, effects, local, hist, counted>>

\* deferred: wg.Done(); the goroutine returns
WgDone(j) ==
  /\ pc[j] = "wgDone"
  /\ wg' = wg - 1
  /\ pc' = [pc EXCEPT ![j] = "done"]
  /\ UNCHANGED <<flags, srv, mainVars, signal, sem, counters, effects, local, held, hist, counted>>

\* one step of the goroutine of job j
deleteArtifact(j) ==
  \/ Acquire(j)
  \/ Abandon(j)
  \/ CheckCtx(j)
  \/ LoopHead(j)
  \/ Do(j)
  \/ DoTransportError(j)
  \/ DoCanceled(j)
  \/ \E s \in DeleteStatuses : DoResponse(j, s)
  \/ Processed(j)
  \/ Release(j)
  \/ WgDone(j)

\* ------------------------------------------------------------------ Next
Next ==
  \/ Validate
  \/ OpenLogFile
  \/ Cancel
  \/ ProjectExistsDo
  \/ \E r \in ProjectResults : ProjectExistsReturn(r)
  \/ ListJobsDo
  \/ \E r \in ListResults : ListJobsReturn(r)
  \/ DispatchTest
  \/ Launch
  \/ Wait
  \/ Summary
  \/ \E j \in JobIDs : deleteArtifact(j)

Spec == Init /\ [][Next]_vars

\* ------------------------------------------------------------- fairness
\* one step of the main goroutine (the signal goroutine is not part of it:
\* an interrupt may never come)
mainStep ==
  \/ Validate
  \/ OpenLogFile
  \/ ProjectExistsDo
  \/ \E r \in ProjectResults : ProjectExistsReturn(r)
  \/ ListJobsDo
  \/ \E r \in ListResults : ListJobsReturn(r)
  \/ DispatchTest
  \/ Launch
  \/ Wait
  \/ Summary

\* the Go scheduler runs every goroutine that can take a step, and every HTTP
\* request returns (httpClient has a timeout)
Fairness ==
  /\ WF_vars(mainStep)
  /\ \A j \in JobIDs : WF_vars(deleteArtifact(j))

SpecFair == Init /\ [][Next]_vars /\ Fairness

\* ---------------------------------------------------------------- rerun
\* the process has ended and the program is invoked again with the same
\* flags against the same server: a fresh process, the server keeps its state
Rerun ==
  /\ mainPC = "exit"
  /\ Len(earlier) < MaxRuns - 1
  /\ earlier' = Append(earlier, summary)
  /\ mainPC' = "validate"
  /\ ctxDone' = FALSE
  /\ launchedAtSignal' = 0
  /\ jobs' = <<>>
  /\ page' = 1
  /\ jobID' = 0
  /\ totalJobs' = 0
  /\ wg' = 0
  /\ sem' = 0
  /\ successCounter' = 0
  /\ failureCounter' = 0
  /\ skippedCounter' = 0
  /\ processedCounter' = 0
  /\ summary' = <<>>
  /\ exitCode' = -1
  /\ fatal' = "none"
  /\ mainRes' = [err |-> "nil", status |-> 0]
  /\ pc' = [j \in JobIDs |-> "idle"]
  /\ counted' = [j \in JobIDs |-> <<>>]
  /\ answer' = [j \in JobIDs |-> 0]
  /\ logLines' = [j \in JobIDs |-> 0]
  /\ shown' = [j \in JobIDs |-> 0]
  /\ UNCHANGED <<mode, server, token, projectID, startJob, endJob, concurrency, pageLimit,
                 dryRun, logFileOK, srv, local, held, attempts, attemptLog, sleeps>>

\* runs of at most one job, so that a second run meets the same job again
InitRerun ==
  /\ Init
  /\ mode = "range" => endJob <= startJob
  /\ mode = "discovery" => serverJobs <= 1

NextRerun == Next \/ Rerun

SpecRerun == InitRerun /\ [][NextRerun]_vars

\* ---------------------------------------------------------------- pages
\* discovery mode against projects of up to MaxPages full pages of jobs, with
\* every page limit; the flags are valid and one goroutine works at a time
InitPages ==
  /\ mode = "discovery"
  /\ server = "gitlab.example.com"
  /\ token = "glpat"
  /\ projectID = 1
  /\ concurrency = 1
  /\ dryRun \in BOOLEAN
  /\ logFileOK = TRUE
  /\ startJob = 0
  /\ endJob = 0
  /\ pageLimit \in 0..MaxPages
  /\ serverJobs \in {k * PerPage + d : k \in 0..MaxPages, d \in 0..1}
  /\ InitProcess

\* the deletion of a discovered list is followed for lists of at most MaxJob
\* jobs; a run that discovered more is followed up to the end of listJobs
NextPages ==
  \/ mainStep /\ (mainPC = "dispatch" => totalJobs <= MaxJob)
  \/ Cancel
  \/ \E j \in JobIDs : deleteArtifact(j)

SpecPages == InitPages /\ [][NextPages]_vars

\* ------------------------------------------------ validation of the flags
\* the flags around every limit validateInputs tests: empty and non-empty
\* strings, numbers below, at and above 0 and 1, the concurrency at and above
\* MaxConcurrencyAllowed, ranges of MaxRange and of MaxRange + 1 jobs
InitValidate ==
  /\ mode \in {"range", "discovery"}
  /\ server \in {"", "gitlab.example.com"}
  /\ token \in {"", "glpat"}
  /\ projectID \in -1..1
  /\ concurrency \in (-1..1) \cup {MaxConcurrencyAllowed, MaxConcurrencyAllowed + 1}
  /\ dryRun = FALSE
  /\ logFileOK = TRUE
  /\ pageLimit = 0
  /\ serverJobs = 0
  /\ IF mode = "range"
     THEN /\ startJob \in -1..MaxJob
          /\ endJob \in (0..MaxJob)
                        \cup {sj + MaxRange - 1 : sj \in 1..MaxJob}
                        \cup {sj + MaxRange : sj \in 1..MaxJob}
     ELSE /\ startJob = 0
          /\ endJob = 0
  /\ InitProcess

\* the validation is applied to the flags
NextValidate == Validate

SpecValidate == InitValidate /\ [][NextValidate]_vars

\* =============================================================== claims
\* wg.Wait() has returned
drained == mainPC = "summary" \/ (mainPC = "exit" /\ summary # <<>>)

\* the job IDs the enumerator produced for this run
enumerated ==
  IF mode = "range" THEN startJob..endJob ELSE {jobs[k] : k \in DOMAIN jobs}

\* how often counter c is in the ledger q of a goroutine
Count(q, c) == Cardinality({k \in DOMAIN q : q[k] = c})

\* how often the goroutines together incremented counter c
RECURSIVE Total(_, _)
Total(S, c) ==
  IF S = {} THEN 0
  ELSE LET j == CHOOSE x \in S : TRUE
       IN  Count(counted[j], c) + Total(S \ {j}, c)

Outcomes == {"successes", "failures", "skipped"}

\* the failed attempts in the log q
errorsIn(q) == {k \in DOMAIN q : q[k].err # "nil"}

\* C1: in range and in discovery mode, in every reachable state, at most
\* `concurrency` goroutines hold a token, the channel holds exactly their
\* tokens, a DELETE is on the wire only for a goroutine that holds a token,
\* and so at most `concurrency` DELETEs are in flight.
C1_ConcurrencyBound ==
  /\ Cardinality(held) <= concurrency
  /\ sem = Cardinality(held)
  /\ \A j \in JobIDs : (pc[j] = "inflight" \/ attempts[j] > 0) => j \in held
  /\ Cardinality({j \in JobIDs : pc[j] = "inflight"}) <= concurrency

\* C1 witness: discovery mode, every token taken, a DELETE in flight and
\* another goroutine waiting for a token
C1_Witness ==
  /\ mode = "discovery"
  /\ Cardinality(held) = concurrency
  /\ \E j, k \in JobIDs : pc[j] = "inflight" /\ pc[k] = "select"

\* C2: once wg.Wait() has returned, processed == successes + failures +
\* skipped, with or without cancellation.
C2_ProcessedIsSum ==
  drained => processedCounter = successCounter + failureCounter + skippedCounter

\* C2 witness: a drained run that was cancelled after some but not all jobs
\* were counted
C2_Witness ==
  /\ drained
  /\ ctxDone
  /\ processedCounter > 0
  /\ processedCounter < totalJobs

\* C3: without cancellation every enumerated job is processed exactly once,
\* whatever the outcomes of the other jobs: after the drain processed ==
\* totalJobs == successes + failures + skipped and every enumerated job has
\* incremented processed once.
C3_AllProcessed ==
  (drained /\ ~ctxDone) =>
    /\ processedCounter = totalJobs
    /\ processedCounter = successCounter + failureCounter + skippedCounter
    /\ \A j \in enumerated : Count(counted[j], "processed") = 1
    /\ \A j \in JobIDs \ enumerated : counted[j] = <<>>

\* C3 witness: an uncancelled drained run in which one job failed and another
\* succeeded
C3_Witness ==
  /\ drained
  /\ ~ctxDone
  /\ failureCounter >= 1
  /\ successCounter >= 1

\* C4: counters are updated exactly once per job: a goroutine increments
\* nothing before its outcome is known, then exactly one of successes,
\* failures, skipped by 1, then processed by 1, and never anything else; the
\* shared counters are exactly the sums of these increments.
C4_ExactlyOnce ==
  /\ \A j \in JobIDs :
       /\ pc[j] \in {"idle", "select", "ctxErr", "loop", "do", "inflight"}
            => counted[j] = <<>>
       /\ pc[j] = "processed"
            => \E c \in Outcomes : counted[j] = <<c>>
       /\ pc[j] \in {"release", "wgDone", "done"}
            => \/ counted[j] = <<>>
               \/ \E c \in Outcomes : counted[j] = <<c, "processed">>
  /\ successCounter = Total(JobIDs, "successes")
  /\ failureCounter = Total(JobIDs, "failures")
  /\ skippedCounter = Total(JobIDs, "skipped")
  /\ processedCounter = Total(JobIDs, "processed")

\* C4 witness: two jobs have been counted, with different outcomes
C4_Witness ==
  \E j, k \in JobIDs :
    /\ counted[j] = <<"failures", "processed">>
    /\ counted[k] = <<"skipped", "processed">>
    /\ failureCounter = 1 /\ skippedCounter = 1 /\ processedCounter = 2

\* C5: outside dry-run the final result of the job decides its one outcome:
\* 204 increments successes, 404 skipped, any other status failures, and an
\* error left after the loop (three failed attempts) failures.
C5_Classification ==
  \A j \in JobIDs :
    (pc[j] = "processed" /\ ~dryRun /\ ~reqErr[j]) =>
      /\ Len(attemptLog[j]) >= 1
      /\ attemptLog[j][Len(attemptLog[j])] = [err |-> err[j], status |-> resp[j]]
      /\ (err[j] = "nil" /\ resp[j] = StatusNoContent) => counted[j] = <<"successes">>
      /\ (err[j] = "nil" /\ resp[j] = StatusNotFound) => counted[j] = <<"skipped">>
      /\ (err[j] = "nil" /\ resp[j] \notin {StatusNoContent, StatusNotFound})
           => counted[j] = <<"failures">>
      /\ err[j] # "nil"
           => /\ counted[j] = <<"failures">>
              /\ Len(attemptLog[j]) = MaxAttempts
              /\ errorsIn(attemptLog[j]) = 1..MaxAttempts

\* C5 witness: a job counted as a failure after three transport errors
C5_Witness ==
  \E j \in JobIDs :
    /\ pc[j] = "processed"
    /\ attemptLog[j] = <<DoErr("transport"), DoErr("transport"), DoErr("transport")>>
    /\ counted[j] = <<"failures">>

\* C6: a job makes at most 3 attempts, one after another: an attempt is only
\* started when every earlier attempt has ended in an error, and nothing is
\* attempted after an attempt that returned a response.
C6_AttemptOrder ==
  \A j \in JobIDs :
    /\ attempts[j] <= MaxAttempts
    /\ Len(attemptLog[j]) <= MaxAttempts
    /\ attempts[j] <= Len(attemptLog[j]) + (IF pc[j] = "inflight" THEN 1 ELSE 0)
    /\ \A k \in 1..(Len(attemptLog[j]) - 1) : attemptLog[j][k].err # "nil"
    /\ pc[j] \in {"loop", "do", "inflight"}
         => /\ errorsIn(attemptLog[j]) = DOMAIN attemptLog[j]
            /\ Len(attemptLog[j]) < MaxAttempts
            /\ i[j] = Len(attemptLog[j])

\* C6 witness: the third DELETE of a job is in flight after two failed ones
C6_Witness ==
  \E j \in JobIDs :
    /\ pc[j] = "inflight"
    /\ attempts[j] = 3
    /\ attemptLog[j] = <<DoErr("transport"), DoErr("transport")>>

\* the sleeps that n failed attempts must have caused
sleepsAfter(n) == IF n = 0 THEN <<>> ELSE IF n = 1 THEN <<2>> ELSE <<2, 4>>

\* C7: a backoff sleep follows a failed attempt that is not the third one, 2s
\* after the first and 4s after the second; so two transport errors and then
\* a 204 give a success with the sleeps 2s, 4s, and three failed attempts
\* give two sleeps as well.
C7_Backoff ==
  \A j \in JobIDs :
    /\ sleeps[j] = sleepsAfter(Cardinality(errorsIn(attemptLog[j])))
    /\ (pc[j] = "processed"
        /\ attemptLog[j] = <<DoErr("transport"), DoErr("transport"), DoOK(StatusNoContent)>>)
         => counted[j] = <<"successes">> /\ sleeps[j] = <<2, 4>>
    /\ (pc[j] = "processed" /\ Cardinality(errorsIn(attemptLog[j])) = MaxAttempts)
         => counted[j] = <<"failures">> /\ Len(sleeps[j]) = 2

\* C7 witness: two transport errors, then 204: counted as a success after the
\* sleeps 2s and 4s
C7_Witness ==
  \E j \in JobIDs :
    /\ pc[j] = "processed"
    /\ attemptLog[j] = <<DoErr("transport"), DoErr("transport"), DoOK(StatusNoContent)>>
    /\ counted[j] = <<"successes">>
    /\ sleeps[j] = <<2, 4>>

\* C8 (as claimed): a DELETE answered with a 5xx status is retried, so a job
\* is counted as a failure on a 5xx answer only when that answer came on the
\* third attempt, after the backoff sleeps 2s and 4s.
C8_RetriesServerError ==
  \A j \in JobIDs :
    (pc[j] = "processed" /\ err[j] = "nil" /\ resp[j] = StatusInternalServerError) =>
      /\ Len(attemptLog[j]) = MaxAttempts
      /\ sleeps[j] = <<2, 4>>

\* C9: a DELETE answered 404 ends the job: it is counted as skipped, as
\* nothing else, and no further request follows it; when 404 is the first
\* answer that is one request and no sleep. A second run against a job whose
\* artifact the run before deleted or found missing counts no success, and a
\* run whose job is answered 404 leaves successes and failures at 0.
C9_NotFoundIsSkipped ==
  /\ \A j \in JobIDs :
       /\ (pc[j] = "processed" /\ err[j] = "nil" /\ resp[j] = StatusNotFound)
            => /\ counted[j] = <<"skipped">>
               /\ successCounter = 0
               /\ failureCounter = 0
               /\ attemptLog[j] = <<DoOK(StatusNotFound)>>
                    => attempts[j] = 1 /\ sleeps[j] = <<>>
       /\ pc[j] \in {"loop", "do", "inflight"}
            => \A k \in DOMAIN attemptLog[j] : attemptLog[j][k] # DoOK(StatusNotFound)
  /\ (~dryRun /\ drained /\ Len(earlier) >= 1 /\ earlier[Len(earlier)] \in {<<0, 0, 1, 1>>, <<1, 0, 0, 1>>})
       => /\ successCounter = 0
          /\ failureCounter = 0 => skippedCounter = processedCounter

\* C9 witness: the job was skipped in the first run and is skipped again in
\* the second, with no success and no failure in either
C9_Witness ==
  /\ ~dryRun
  /\ mainPC = "exit"
  /\ earlier = << <<0, 0, 1, 1>> >>
  /\ summary = <<0, 0, 1, 1>>

\* C10: in dry-run mode no DELETE is ever sent and nothing but skipped and
\* processed is ever incremented; without cancellation skipped == processed
\* == totalJobs after the drain.
C10_DryRun ==
  dryRun =>
    /\ \A j \in JobIDs :
         /\ attempts[j] = 0
         /\ attemptLog[j] = <<>>
         /\ pc[j] \notin {"loop", "do", "inflight"}
         /\ counted[j] \in {<<>>, <<"skipped">>, <<"skipped", "processed">>}
    /\ noArtifact = {}
    /\ successCounter = 0
    /\ failureCounter = 0
    /\ (drained /\ ~ctxDone)
         => skippedCounter = totalJobs /\ processedCounter = totalJobs

\* C10 witness: an uncancelled dry run of two jobs has drained with both
\* jobs skipped
C10_Witness ==
  /\ dryRun
  /\ drained
  /\ ~ctxDone
  /\ totalJobs = 2
  /\ skippedCounter = 2
  /\ processedCounter = 2

\* the goroutines main has launched
launched == {j \in JobIDs : pc[j] # "idle"}

\* C11: the dispatch loop tests the context before every launch and launches
\* nothing once it has seen the signal: after cancel() at most the one launch
\* whose test came before the signal still happens, and processed never
\* exceeds the number of goroutines launched before the signal, in particular
\* after the drain.
C11_StopsLaunching ==
  ctxDone =>
    /\ Cardinality(launched) <= launchedAtSignal + 1
    /\ mainPC = "launch" => Cardinality(launched) = launchedAtSignal
    /\ mainPC \notin {"dispatch", "launch"}
         => mainPC \in {"wait", "summary", "exit"} \/ launched = {}
    /\ processedCounter <= launchedAtSignal

\* C11 witness: the signal came between the test and the launch of the second
\* job: the first job was processed, the second was launched and not counted
C11_Witness ==
  /\ drained
  /\ ctxDone
  /\ launchedAtSignal = 1
  /\ Cardinality(launched) = 2
  /\ processedCounter = 1

\* C12 (as claimed): every goroutine that acquired a token has recorded
\* exactly one outcome when it leaves its body, also under cancellation.
C12_AdmittedRecordsOne ==
  \A j \in JobIDs :
    pc[j] = "release" => \E c \in Outcomes : counted[j] = <<c, "processed">>

\* C12 (amended): a goroutine that acquired a token records at most one
\* outcome before it returns, and exactly one unless it saw the context
\* cancelled (after the acquisition or at the head of a retry iteration), when
\* it records none; without cancellation every admitted goroutine records
\* exactly one. A goroutine that never acquired a token records nothing.
C12_AdmittedRecordsAtMostOne ==
  \A j \in JobIDs :
    /\ pc[j] = "release"
         => /\ j \in held
            /\ \/ counted[j] = <<>> /\ ctxDone
               \/ \E c \in Outcomes : counted[j] = <<c, "processed">>
    /\ pc[j] = "select" => counted[j] = <<>> /\ j \notin held
    /\ (pc[j] \in {"wgDone", "done"} /\ ~ctxDone)
         => \E c \in Outcomes : counted[j] = <<c, "processed">>

\* C12 witness: after the signal one admitted goroutine leaves its body with
\* nothing recorded, another with its one outcome recorded
C12_Witness ==
  \E j, k \in JobIDs :
    /\ ctxDone
    /\ pc[j] = "release" /\ counted[j] = <<>>
    /\ pc[k] = "release" /\ Len(counted[k]) = 2

\* C13 (as claimed): cancellation is not an error: a job whose attempt was
\* ended by the cancellation of the context is abandoned, no counter is
\* incremented for it and it is never recorded as a failure.
C13_CancellationNotCounted ==
  \A j \in JobIDs :
    (Len(attemptLog[j]) > 0 /\ attemptLog[j][Len(attemptLog[j])].err = "canceled")
      => counted[j] = <<>>

\* the result of the last finished call of httpClient.Do in the log q
last(q) == q[Len(q)]

C15_NothingStartsAfterSignal ==
  [][ctxDone =>
       \A j \in JobIDs :
         /\ attempts'[j] <= attempts[j]
         /\ j \in held' => j \in held
         /\ pc'[j] = "do" => pc[j] = "do"]_vars

\* C15 (amended): after the signal is set no goroutine puts a new DELETE on
\* the wire and none passes the head of a retry iteration. A goroutine can
\* still acquire a token (select takes any ready case), but it then returns
\* at the next test, with no request and nothing counted, and releases the
\* token; a goroutine that was past the head of an iteration calls
\* httpClient.Do once more, which returns the context's error without
\* sending.
C15_NoRequestAfterSignal ==
  [][ctxDone =>
       \A j \in JobIDs :
         /\ attempts'[j] <= attempts[j]
         /\ pc'[j] = "inflight" => pc[j] = "inflight"
         /\ pc'[j] = "do" => pc[j] = "do"
         /\ (pc[j] \in {"ctxErr", "loop"} /\ pc'[j] # pc[j])
              => pc'[j] = "release" /\ counted'[j] = <<>> /\ j \in held'
         /\ (pc[j] = "do" /\ pc'[j] # "do")
              => /\ last(attemptLog'[j]) = DoErr("canceled")
                 /\ attempts'[j] = attempts[j]
         /\ (pc[j] = "release" /\ pc'[j] # "release") => j \notin held']_vars

\* C15 witness: a goroutine launched after the signal has acquired a token
\* and has returned from its body at the test that follows
C15_Witness ==
  \E j \in JobIDs :
    /\ ctxDone
    /\ launchedAtSignal = 0
    /\ pc[j] = "release"
    /\ j \in held
    /\ counted[j] = <<>>

\* C16: with every goroutine scheduled and every HTTP request returning,
\* every launched goroutine returns, with or without cancellation (none
\* stays blocked on the semaphore), main waits for all of them before the
\* summary, and the process reaches its exit status.
C16_Terminates ==
  /\ <>(mainPC = "exit" /\ exitCode \in {0, 1})
  /\ \A j \in JobIDs : (pc[j] = "select") ~> (pc[j] = "done")
  /\ [](drained => (wg = 0 /\ \A j \in JobIDs : pc[j] \in {"idle", "done"}))

\* C16 witness: a run that was cancelled while one goroutine waited for a
\* token and another held it has drained and reported
C16_Witness ==
  /\ mainPC = "exit"
  /\ summary # <<>>
  /\ ctxDone
  /\ concurrency = 1
  /\ launchedAtSignal = 2
  /\ processedCounter = 1
  /\ \A j \in JobIDs : pc[j] = "done"

\* C17: when the run reaches the summary, the exit status depends on the
\* failures counter alone: 1 if failures > 0, otherwise 0, also when the run
\* was cancelled; the summary reports the counters as they are.
C17_ExitStatus ==
  (mainPC = "exit" /\ summary # <<>>) =>
    /\ summary = <<successCounter, failureCounter, skippedCounter, totalJobs>>
    /\ failureCounter > 0 => exitCode = 1
    /\ failureCounter = 0 => exitCode = 0
    /\ fatal = "none"

\* C17 witness: a cancelled run in which a job succeeded, none failed and not
\* every job was processed has exited 0
C17_Witness ==
  /\ mainPC = "exit"
  /\ summary # <<>>
  /\ ctxDone
  /\ failureCounter = 0
  /\ successCounter >= 1
  /\ processedCounter < totalJobs
  /\ exitCode = 0

\* the errors after which the claim lets the process exit 1: a validation
\* error (the log file counted with it), a project-existence failure or a
\* discovery failure that is not the cancellation, or a counted job failure
claimedFailure ==
  \/ fatal \in {"validation", "logFile"}
  \/ fatal \in {"checkingProject", "projectNotExists", "fetchingJobs"}
       /\ mainRes.err # "canceled"
  \/ failureCounter > 0

\* C18 (as claimed): the process exits 1 on a validation error, a
\* project-existence failure, a discovery failure or a job failure and 0 in
\* every other case, so a cancelled run without a job failure exits 0 at
\* whatever stage the cancellation arrives.
C18_ExitCodes ==
  mainPC = "exit" => exitCode = (IF claimedFailure THEN 1 ELSE 0)

\* C18 (amended): the process exits 1 when main reported a fatal error
\* (validation, log file, project check, project missing, job discovery) or a
\* job was counted as failed, and 0 otherwise. A cancellation that the
\* existence check or job discovery meets (context cancelled before the
\* request, or request aborted) is reported as their error and exits 1 with
\* no goroutine launched; a cancelled run exits 0 only from the summary with
\* failures = 0, or when discovery found no job.
C18_ExitCodesWithCancel ==
  mainPC = "exit" =>
    /\ exitCode = (IF fatal # "none" \/ failureCounter > 0 THEN 1 ELSE 0)
    /\ fatal = "validation" <=> validateInputs # "ok"
    /\ fatal = "logFile" <=> (validateInputs = "ok" /\ ~logFileOK)
    /\ fatal = "projectNotExists" => mainRes = DoOK(StatusNotFound)
    /\ fatal \in {"checkingProject", "fetchingJobs"}
         => mainRes.err # "nil" \/ mainRes.status # StatusOK
    /\ mainRes.err = "canceled"
         => /\ ctxDone
            /\ fatal \in {"checkingProject", "fetchingJobs"}
            /\ exitCode = 1
            /\ launched = {}
    /\ fatal = "none"
         => \/ summary # <<>>
            \/ mode = "discovery" /\ jobs = <<>> /\ mainRes = DoOK(StatusOK)

\* C18 witness: the interrupt came during job discovery, no job failed, and
\* the process exited 1
C18_Witness ==
  /\ mainPC = "exit"
  /\ ctxDone
  /\ fatal = "fetchingJobs"
  /\ mainRes = DoErr("canceled")
  /\ failureCounter = 0
  /\ exitCode = 1

\* C19: when the existence check answers 404 or fails (another status, a
\* transport error, a context error, a bad URL), main exits 1 at once: no job
\* is enumerated, no goroutine launched, no DELETE sent, and nothing follows
\* the exit; only a 200 answer lets the run go on.
C19_AbortsBeforeEnumeration ==
  [][/\ mainPC # "exit"
     /\ (mainPC \in {"projectExists", "projectExistsWait"}
         /\ mainPC' \notin {"projectExists", "projectExistsWait"})
          => IF mainRes' = DoOK(StatusOK)
             THEN mainPC' \in {"listJobs", "dispatch"} /\ fatal' = "none"
             ELSE /\ mainPC' = "exit"
                  /\ exitCode' = 1
                  /\ fatal' = (IF mainRes' = DoOK(StatusNotFound)
                               THEN "projectNotExists" ELSE "checkingProject")
                  /\ jobs' = <<>> /\ page' = 1 /\ wg' = 0
                  /\ noArtifact' = {}
                  /\ \A j \in JobIDs : pc'[j] = "idle" /\ attempts'[j] = 0]_vars

\* C19 witness: the existence check was answered 404 and the process has
\* exited 1 with nothing launched
C19_Witness ==
  /\ mainPC = "exit"
  /\ fatal = "projectNotExists"
  /\ mainRes = DoOK(StatusNotFound)
  /\ exitCode = 1
  /\ launched = {}

\* C20: in discovery mode a page request that fails (transport error,
\* context error, status other than 200, body that does not decode) is not
\* repeated: listJobs returns the error and main exits 1 at once, with no
\* goroutine launched and no DELETE sent, also when earlier pages had been
\* fetched; nothing follows the exit.
C20_DiscoveryFailureAborts ==
  [][/\ mainPC = "exit" => mainPC' = "exit"
     /\ (mainPC \in {"listJobs", "listJobsWait"}
         /\ mainPC' \notin {"listJobs", "listJobsWait"}
         /\ mainRes' # DoOK(StatusOK))
          => /\ mainPC' = "exit"
             /\ exitCode' = 1
             /\ fatal' = "fetchingJobs"
             /\ jobs' = (IF mainPC = "listJobs" THEN jobs ELSE <<>>)
             /\ wg' = 0
             /\ noArtifact' = {}
             /\ \A j \in JobIDs : pc'[j] = "idle" /\ attempts'[j] = 0
     /\ (mainPC = "listJobsWait" /\ mainPC' # "listJobsWait"
         /\ mainRes' # DoOK(StatusOK))
          => mainPC' = "exit" /\ page' = page]_vars

\* C20 witness: the first page of 100 jobs was fetched, the request for the
\* second page was answered 500, and the process has exited 1 with nothing
\* launched
C20_Witness ==
  /\ mainPC = "exit"
  /\ fatal = "fetchingJobs"
  /\ serverJobs >= PerPage
  /\ jobs = <<>>
  /\ page = 2
  /\ mainRes = DoOK(StatusInternalServerError)
  /\ exitCode = 1
  /\ launched = {}

\* the job records of the server in page order, cut after n records
firstJobs(n) == [k \in 1..Min(n, serverJobs) |-> k]

\* listJobs has returned without error
listed ==
  /\ mode = "discovery"
  /\ \/ mainPC \in {"dispatch", "launch", "wait", "summary"}
     \/ mainPC = "exit" /\ fatal = "none"

\* C21: listJobs requests the pages 1, 2, 3, ... in order, each after all
\* earlier pages came back full, and never more than pageLimit pages when
\* pageLimit > 0; it returns the records of the pages it fetched in page
\* order: all records of the project when pageLimit = 0, the first
\* pageLimit * 100 otherwise, stopping at the first page shorter than 100.
C21_Pagination ==
  /\ mainPC \in {"listJobs", "listJobsWait"}
       => /\ jobs = firstJobs((page - 1) * PerPage)
          /\ Len(jobs) = (page - 1) * PerPage
          /\ pageLimit > 0 => page <= pageLimit
  /\ listed
       => /\ jobs = firstJobs(IF pageLimit > 0 THEN pageLimit * PerPage ELSE serverJobs)
          /\ pageLimit > 0 => page <= pageLimit + 1
          /\ page <= serverJobs \div PerPage + 1
          /\ (page - 1) * PerPage <= Len(jobs)

\* C21 witness: two full pages and a third short one were fetched without a
\* page limit
C21_Witness ==
  /\ listed
  /\ pageLimit = 0
  /\ serverJobs = 2 * PerPage + 1
  /\ page = 3
  /\ Len(jobs) = 2 * PerPage + 1
  /\ jobs[2 * PerPage + 1] = 2 * PerPage + 1

\* the dispatch loop has been entered
dispatching == mainPC \in {"dispatch", "launch", "wait"} \/ drained

\* the dispatch loop has been left
dispatched == mainPC = "wait" \/ drained

\* C22: in range mode the goroutines launched so far are those of the IDs
\* startJob..jobID-1, each launched once (the launches counted by the
\* WaitGroup are as many as the IDs), so they always form a prefix of
\* [startJob, endJob]; once the loop is left the prefix is the whole interval
\* unless the context was cancelled.
C22_RangeDispatch ==
  (mode = "range" /\ dispatching)
    => /\ jobID \in startJob..(endJob + 1)
       /\ launched = startJob..(jobID - 1)
       /\ wg + Cardinality({j \in JobIDs : pc[j] = "done"}) = jobID - startJob
       /\ mainPC = "launch" => jobID <= endJob /\ pc[jobID] = "idle"
       /\ (dispatched /\ ~ctxDone) => launched = startJob..endJob

\* C22 witness: an uncancelled run over [1, MaxJob] has drained with every ID
\* of the interval launched
C22_Witness ==
  /\ mode = "range"
  /\ drained
  /\ ~ctxDone
  /\ startJob = 1
  /\ endJob = MaxJob
  /\ launched = 1..MaxJob

\* the four fields both variants of validateInputs test
validCommon ==
  /\ server # ""
  /\ token # ""
  /\ projectID > 0
  /\ concurrency >= 1
  /\ concurrency <= MaxConcurrencyAllowed

\* the range is one validateInputs of main.go accepts
validRange ==
  /\ startJob > 0
  /\ endJob >= startJob
  /\ endJob - startJob + 1 <= MaxRange

\* the field the error of validateInputs names is violated
namesViolatedField ==
  /\ validateInputs = "server" => server = ""
  /\ validateInputs = "token" => token = ""
  /\ validateInputs = "projectID" => projectID <= 0
  /\ validateInputs = "concurrency"
       => (concurrency < 1 \/ concurrency > MaxConcurrencyAllowed)
  /\ validateInputs = "startJob" => (mode = "range" /\ startJob <= 0)
  /\ validateInputs = "endJob" => (mode = "range" /\ endJob < startJob)
  /\ validateInputs = "range"
       => (mode = "range" /\ endJob - startJob + 1 > MaxRange)

\* C23: once the validation has run, it has succeeded when server, token,
\* projectID and concurrency (in [1, 1000]) are valid (in range mode: and the
\* range is valid), and it has failed, with exit status 1 and an error that
\* names a field that is violated, when the server or the token is empty,
\* projectID <= 0, the concurrency is outside [1, 1000] or, in range mode,
\* endJob < startJob; the result is a function of the flags.
C23_Validation ==
  mainPC # "validate"
    => /\ (validCommon /\ (mode = "range" => validRange))
            => (mainPC = "openLog" /\ fatal = "none" /\ validateInputs = "ok")
       /\ (~validCommon \/ (mode = "range" /\ endJob < startJob))
            => /\ mainPC = "exit"
               /\ fatal = "validation"
               /\ exitCode = 1
               /\ validateInputs # "ok"
       /\ mode = "discovery" => (fatal = "none" <=> validCommon)
       /\ namesViolatedField

\* C23 witness: a discovery run with concurrency 1001 and otherwise valid
\* fields was rejected for its concurrency
C23_Witness ==
  /\ mainPC = "exit"
  /\ fatal = "validation"
  /\ mode = "discovery"
  /\ server # ""
  /\ token # ""
  /\ projectID = 1
  /\ concurrency = MaxConcurrencyAllowed + 1
  /\ validateInputs = "concurrency"

\* C24: in range mode the validation fails for startJob <= 0 and for a range
\* of more than 1,000,000 jobs, and succeeds for a range of exactly 1,000,000
\* jobs when every other field is valid.
C24_RangeValidation ==
  (mode = "range" /\ mainPC # "validate")
    => /\ startJob <= 0 => (fatal = "validation" /\ exitCode = 1)
       /\ endJob - startJob + 1 > MaxRange => (fatal = "validation" /\ exitCode = 1)
       /\ (validCommon /\ startJob > 0 /\ endJob - startJob + 1 = MaxRange)
            => (mainPC = "openLog" /\ fatal = "none")
       /\ validateInputs = "startJob" => startJob <= 0
       /\ validateInputs = "range" => endJob - startJob + 1 > MaxRange
       /\ (validCommon /\ startJob > 0 /\ endJob - startJob + 1 > MaxRange)
            => validateInputs = "range"
       /\ (server # "" /\ token # "" /\ projectID > 0 /\ startJob <= 0)
            => validateInputs = "startJob"

\* C24 witness: a range of exactly 1,000,000 jobs has passed the validation
C24_Witness ==
  /\ mode = "range"
  /\ mainPC = "openLog"
  /\ startJob = MaxJob
  /\ endJob - startJob + 1 = MaxRange

\* the enumerated jobs whose DELETE was last answered with a status in S
answered(S) == {j \in enumerated : answer[j] \in S}

\* C25: after the drain of a run without cancellation that sends its DELETEs,
\* whatever the interleaving and the concurrency, successes is the number of
\* jobs answered 204, skipped the number answered 404 and failures the number
\* of the other jobs (another status, or no answer after three attempts);
\* the summary reports these numbers and the exit code is 1 exactly when a
\* job is among the others.
C25_CountersFromAnswers ==
  (drained /\ ~ctxDone /\ ~dryRun)
    => /\ successCounter = Cardinality(answered({StatusNoContent}))
       /\ skippedCounter = Cardinality(answered({StatusNotFound}))
       /\ failureCounter
            = Cardinality(enumerated \ answered({StatusNoContent, StatusNotFound}))
       /\ mainPC = "exit"
            => /\ summary = <<successCounter, failureCounter, skippedCounter,
                              Cardinality(enumerated)>>
               /\ exitCode = (IF enumerated \ answered({StatusNoContent, StatusNotFound}) = {}
                              THEN 0 ELSE 1)

\* C25 witness: a run of MaxJob jobs at concurrency 2 has ended with exit
\* code 1 after job 1 was answered 204 and job MaxJob 500
C25_Witness ==
  /\ mainPC = "exit"
  /\ summary # <<>>
  /\ ~ctxDone
  /\ ~dryRun
  /\ concurrency = 2
  /\ enumerated = 1..MaxJob
  /\ answer[1] = StatusNoContent
  /\ answer[MaxJob] = StatusInternalServerError
  /\ successCounter = 1
  /\ failureCounter = 1
  /\ exitCode = 1

\* C26 (as claimed): a backoff delay follows each failed attempt, 2s after the
\* first, 4s after the second and 6s after the third.
C26_ThreeDelays ==
  \A j \in JobIDs :
    sleeps[j] = [k \in 1..Cardinality(errorsIn(attemptLog[j])) |-> 2 * k]

\* positions of a goroutine between its acquisition and its deferred release
afterAcquire == {"ctxErr", "loop", "do", "inflight", "processed", "release"}

\* C27: a goroutine holds a token exactly from its acquisition to its
\* deferred release, whatever path it takes through the function body: the
\* channel holds one token per goroutine in between and none for the others
\* (none is released twice, none by a goroutine that did not acquire), and
\* after the goroutines have drained the channel is empty.
C27_TokenReleasedOnce ==
  /\ sem = Cardinality(held)
  /\ sem >= 0
  /\ \A j \in JobIDs : j \in held <=> pc[j] \in afterAcquire
  /\ (mainPC \in {"wait", "summary", "exit"} /\ wg = 0) => (sem = 0 /\ held = {})

\* C27 witness: a goroutine that counted a failure has released its token
\* and the channel is empty
C27_Witness ==
  \E j \in JobIDs :
    /\ pc[j] = "wgDone"
    /\ counted[j] = <<"failures", "processed">>
    /\ j \notin held
    /\ sem = 0

\* C28 (as claimed): a goroutine that has not acquired a token when the
\* context is cancelled leaves the select without a token and without
\* counting anything.
C28_AbandonsWithoutAcquiring ==
  [][\A j \in JobIDs :
       (ctxDone /\ pc[j] = "select" /\ pc'[j] # "select")
         => /\ pc'[j] = "wgDone"
            /\ j \notin held'
            /\ counted'[j] = <<>>]_vars

\* C28 (amended): a goroutine that has not acquired a token when the context
\* is cancelled never counts its job and never sends a DELETE: it leaves the
\* select either without a token, or, when the channel has room, with a
\* token, and then returns at the test of the context that follows and
\* releases that token; no counter changes in any of these steps.
C28_EarlyCancelNeverCounted ==
  [][\A j \in JobIDs :
       /\ (ctxDone /\ pc[j] = "select" /\ pc'[j] # "select")
            => /\ \/ pc'[j] = "wgDone" /\ j \notin held' /\ sem' = sem
                  \/ pc'[j] = "ctxErr" /\ j \in held' /\ sem < concurrency
               /\ counted'[j] = <<>>
               /\ counters' = counters
       /\ (ctxDone /\ pc[j] = "ctxErr" /\ pc'[j] # "ctxErr")
            => /\ pc'[j] = "release"
               /\ counted'[j] = <<>>
               /\ attempts'[j] = 0
               /\ counters' = counters
       /\ (pc[j] = "release" /\ counted[j] = <<>> /\ pc'[j] # "release")
            => /\ pc'[j] = "wgDone"
               /\ j \notin held'
               /\ counted'[j] = <<>>
               /\ counters' = counters
       /\ (pc[j] = "wgDone" /\ pc'[j] # "wgDone")
            => /\ pc'[j] = "done"
               /\ counted'[j] = counted[j]
               /\ counters' = counters]_vars

\* C28 witness: with one token, held by a goroutine whose first DELETE is in
\* flight, the context was cancelled and another goroutine has left the
\* select without a token and without counting
C28_Witness ==
  \E j, k \in JobIDs :
    /\ ctxDone
    /\ concurrency = 1
    /\ pc[k] = "inflight"
    /\ attempts[k] = 1
    /\ attemptLog[k] = <<>>
    /\ pc[j] = "wgDone"
    /\ j \notin held
    /\ counted[j] = <<>>
    /\ processedCounter = 0

\* C29: main reads the counters only after wg.Wait(): from then on every
\* launched goroutine has returned, the counters hold every increment the
\* goroutines made, and they do not change any more, so the summary and the
\* exit status are those of the final counter values.
C29_AggregatesAfterDrain ==
  /\ drained
       => /\ wg = 0
          /\ \A j \in JobIDs : pc[j] \in {"idle", "done"}
          /\ successCounter = Total(JobIDs, "successes")
          /\ failureCounter = Total(JobIDs, "failures")
          /\ skippedCounter = Total(JobIDs, "skipped")
          /\ processedCounter = Total(JobIDs, "processed")
  /\ (mainPC = "exit" /\ summary # <<>>)
       => /\ summary = <<successCounter, failureCounter, skippedCounter, totalJobs>>
          /\ exitCode = (IF failureCounter > 0 THEN 1 ELSE 0)

\* C29 witness: the summary of a run at concurrency 2 was made after both
\* goroutines had returned, one of them with a failure
C29_Witness ==
  /\ mainPC = "exit"
  /\ summary # <<>>
  /\ concurrency = 2
  /\ \A j \in 1..2 : pc[j] = "done"
  /\ processedCounter = 2
  /\ failureCounter >= 1
  /\ summary[2] = failureCounter

\* C30: a run whose flags fail the validation never leaves the validation
\* except to exit with status 1: it issues no existence check and no page
\* request (main has made no request and is not waiting for one), launches
\* no goroutine and sends no DELETE.
C30_ConfigErrorBeforeNetwork ==
  (validateInputs # "ok")
    => /\ mainPC \in {"validate", "exit"}
       /\ mainPC = "exit" => (fatal = "validation" /\ exitCode = 1)
       /\ mainRes = [err |-> "nil", status |-> 0]
       /\ jobs = <<>>
       /\ page = 1
       /\ summary = <<>>
       /\ \A j \in JobIDs :
            /\ pc[j] = "idle"
            /\ attempts[j] = 0
            /\ attemptLog[j] = <<>>
            /\ answer[j] = 0
            /\ counted[j] = <<>>

\* C30 witness: a range run with endJob < startJob and otherwise valid flags
\* has exited with status 1
C30_Witness ==
  /\ mode = "range"
  /\ validCommon
  /\ startJob > 0
  /\ endJob < startJob
  /\ mainPC = "exit"
  /\ fatal = "validation"
  /\ exitCode = 1

\* projectExists has returned and mainRes still holds the result of its request
checkedProject ==
  /\ mainPC \notin {"validate", "openLog", "projectExists", "projectExistsWait"}
  /\ fatal \notin {"validation", "logFile", "fetchingJobs"}
  /\ mode = "discovery" => (mainPC = "exit" \/ (mainPC = "listJobs" /\ page = 1))
  /\ (mode = "discovery" /\ mainPC = "exit") => fatal # "none"

C32_ExistenceCheckHonorsCancel ==
  [][(mainPC = "projectExists" /\ ctxDone /\ mainPC' # "projectExists")
       => /\ mainPC' = "exit"
          /\ mainRes' \in {DoErr("canceled"), DoErr("url")}
          /\ projectExistsResult(mainRes') = "failed"
          /\ fatal' = "checkingProject"
          /\ exitCode' = 1]_vars

\* C32 witness: the existence check of a cancelled run has returned the
\* context's error and main has exited, with no goroutine ever launched
C32_Witness ==
  /\ ctxDone
  /\ launchedAtSignal = 0
  /\ mainPC = "exit"
  /\ fatal = "checkingProject"
  /\ mainRes = DoErr("canceled")
  /\ exitCode = 1

\* C33: listJobs tests the context before each page request; when it is
\* cancelled there, no further page request is issued (main never waits for
\* one) and listJobs returns the jobs gathered so far, unchanged, together
\* with the context's error.
C33_ListJobsHonorsCancel ==
  [][/\ (mainPC = "listJobs" /\ ctxDone /\ mainPC' # "listJobs")
          => /\ mainPC' = "exit"
             /\ jobs' = jobs
             /\ jobs' = firstJobs((page - 1) * PerPage)
             /\ page' = page
             /\ mainRes' = DoErr("canceled")
     /\ mainPC' = "listJobsWait" => (mainPC = "listJobsWait" \/ (mainPC = "listJobs" /\ ~ctxDone))
    ]_vars

\* C33 witness: the context was cancelled after the first full page was
\* fetched, and listJobs has returned its 100 jobs with the context's error
C33_Witness ==
  /\ ctxDone
  /\ mainPC = "exit"
  /\ mainRes = DoErr("canceled")
  /\ page = 2
  /\ Len(jobs) = PerPage
  /\ jobs[PerPage] = PerPage

\* the sum of f over the goroutines in S
RECURSIVE Sum(_, _)
Sum(f, S) ==
  IF S = {} THEN 0
  ELSE LET j == CHOOSE x \in S : TRUE
       IN  f[j] + Sum(f, S \ {j})

C35_SummaryTotal ==
  (mainPC = "exit" /\ summary # <<>>)
    => /\ Len(summary) = 4
       /\ summary[4] = (IF mode = "range" THEN endJob - startJob + 1 ELSE Len(jobs))
       /\ summary[4] = Cardinality(enumerated)
       /\ summary[1] + summary[2] + summary[3] = processedCounter
       /\ summary[1] + summary[2] + summary[3] <= summary[4]
       /\ ~ctxDone => summary[1] + summary[2] + summary[3] = summary[4]

\* C35 witness: the summary of a cancelled run reports fewer outcomes than
\* its Total
C35_Witness ==
  /\ mainPC = "exit"
  /\ summary # <<>>
  /\ ctxDone
  /\ summary[4] = MaxJob
  /\ summary[1] + summary[2] + summary[3] < summary[4]
  /\ processedCounter < summary[4]

\* C36: a launched goroutine leaves its function body without an outcome only
\* when the context is cancelled; so when after the drain processed is
\* smaller than the number of launched goroutines the signal was set, and
\* without cancellation every launched goroutine has recorded an outcome.
C36_UncountedOnlyByCancel ==
  /\ \A j \in JobIDs :
       (pc[j] \in {"release", "wgDone", "done"} /\ counted[j] = <<>>) => ctxDone
  /\ (drained /\ processedCounter < Cardinality(launched)) => ctxDone
  /\ (drained /\ ~ctxDone)
       => /\ processedCounter = Cardinality(launched)
          /\ \A j \in launched : \E c \in Outcomes : counted[j] = <<c, "processed">>

\* C36 witness: after the drain two goroutines were launched and one of them
\* is uncounted, in a cancelled run
C36_Witness ==
  /\ drained
  /\ ctxDone
  /\ Cardinality(launched) = 2
  /\ processedCounter = 1
  /\ \E j \in launched : counted[j] = <<>>

\* the goroutines between the increment of their outcome counter and the
\* increment of processedCounter
betweenIncrements == {j \in JobIDs : pc[j] = "processed"}

\* C37: in every step no counter decreases, and in every state reached
\* processed <= successes + failures + skipped <= processed + concurrency:
\* the difference is the number of goroutines between their two increments,
\* and each of them holds a token.
C37_CountersMonotone ==
  [][/\ successCounter' >= successCounter
     /\ failureCounter' >= failureCounter
     /\ skippedCounter' >= skippedCounter
     /\ processedCounter' >= processedCounter
     /\ processedCounter' <= successCounter' + failureCounter' + skippedCounter'
     /\ successCounter' + failureCounter' + skippedCounter'
          <= processedCounter' + concurrency'
     /\ successCounter' + failureCounter' + skippedCounter'
          = processedCounter' + Cardinality(betweenIncrements')
     /\ betweenIncrements' \subseteq held'
     /\ \A j \in JobIDs : counted'[j] # counted[j] => j \in held]_vars

\* C37 witness: at concurrency 2 both goroutines have incremented their
\* outcome counter and not yet processed
C37_Witness ==
  /\ concurrency = 2
  /\ Cardinality(betweenIncrements) = 2
  /\ processedCounter = 0
  /\ successCounter + failureCounter + skippedCounter = 2

\* C38: a goroutine that takes a token while the context is cancelled goes
\* from the acquisition straight to the deferred release: it sends no DELETE,
\* records nothing in dry-run, changes no counter, writes no log line and
\* shows nothing, and then gives the token back.
C38_TokenAfterSignalUnused ==
  [][\A j \in JobIDs :
       /\ (ctxDone /\ j \notin held /\ j \in held')
            => /\ pc'[j] = "ctxErr"
               /\ sem' = sem + 1
               /\ UNCHANGED <<counters, effects, counted, attempts, answer>>
       /\ (ctxDone /\ pc[j] = "ctxErr" /\ pc'[j] # "ctxErr")
            => /\ pc'[j] = "release"
               /\ j \in held'
               /\ UNCHANGED <<counters, effects, counted, attempts, answer, sem>>
               /\ attempts[j] = 0 /\ logLines[j] = 0 /\ shown[j] = 0
       /\ (ctxDone /\ pc[j] = "release" /\ counted[j] = <<>> /\ pc'[j] # "release")
            => /\ pc'[j] = "wgDone"
               /\ held' = held \ {j}
               /\ sem' = sem - 1
               /\ UNCHANGED <<counters, effects, counted, attempts, answer>>]_vars

\* C38 witness: in a dry run a goroutine launched after the signal has taken
\* a token and has left its body with nothing recorded, the release pending
C38_Witness ==
  \E j \in JobIDs :
    /\ ctxDone
    /\ dryRun
    /\ launchedAtSignal = 0
    /\ pc[j] = "release"
    /\ j \in held
    /\ counted[j] = <<>>
    /\ logLines[j] = 0
    /\ shown[j] = 0
    /\ skippedCounter = 0

\* the project has full pages only, and the page limit does not stop the
\* discovery before the empty page that follows them
endsWithEmptyPage ==
  /\ mode = "discovery"
  /\ serverJobs % PerPage = 0
  /\ pageLimit = 0 \/ pageLimit > serverJobs \div PerPage

\* C39: in discovery mode a project without jobs (an empty first page) ends
\* the run with exit status 0, no error, no goroutine launched and no DELETE
\* sent; and whenever the page after the last full page is empty, the
\* discovery ends there without error with all jobs of the full pages.
C39_EmptyPageEndsDiscovery ==
  /\ (mode = "discovery" /\ serverJobs = 0)
       => /\ mainPC \notin {"dispatch", "launch", "wait", "summary"}
          /\ launched = {}
          /\ \A j \in JobIDs : attempts[j] = 0 /\ answer[j] = 0
          /\ (mainPC = "exit" /\ mainRes = DoOK(StatusOK))
               => /\ exitCode = 0
                  /\ fatal = "none"
                  /\ jobs = <<>>
                  /\ page = 1
  /\ (endsWithEmptyPage /\ mainPC = "listJobsWait" /\ page = serverJobs \div PerPage + 1)
       => Len(jobs) = serverJobs
  /\ (endsWithEmptyPage /\ listed)
       => /\ fatal = "none"
          /\ Len(jobs) = serverJobs
          /\ page = serverJobs \div PerPage + 1
          /\ serverJobs = 0 => (mainPC = "exit" /\ exitCode = 0)
          /\ serverJobs > 0 => totalJobs = serverJobs

\* C39 witness: the first page of a project without jobs came back empty and
\* the run has ended with exit status 0
C39_Witness ==
  /\ mode = "discovery"
  /\ serverJobs = 0
  /\ mainPC = "exit"
  /\ mainRes = DoOK(StatusOK)
  /\ page = 1
  /\ exitCode = 0
  /\ fatal = "none"
  /\ launched = {}

====
